---- MODULE Spec2Model ----
(***************************************************************************)
(* rangesByName (src/src/rangesByName.ts): decoding of a delta-encoded     *)
(* semantic-token stream into a map from identifier name to the ranges to  *)
(* highlight.  One behaviour is one call of rangesByName: the inputs are   *)
(* chosen in Init, every iteration of the token loop is one step, the      *)
(* language exception is one step, every iteration of the reconciliation   *)
(* loop is one step, and the return is the last step.                      *)
(***************************************************************************)
EXTENDS Integers, Sequences, FiniteSets, TLC

VARIABLES
    data,               \* data.data: the flat integer array (input)
    tokenTypes,         \* legend.tokenTypes (input)
    tokenModifiers,     \* legend.tokenModifiers (input)
    languageId,         \* editor.document.languageId (input)
    highlightGlobals,   \* input flag
    highlightClasses,   \* input flag
    accumulatorParam,   \* Map<string, Range[]>
    accumulatorVar,     \* Map<string, Range[]>
    accumulatorWithDec, \* Map<string, boolean>
    i,                  \* index of the token loop (0-based offset into data)
    line,               \* running line
    column,             \* running column
    range,              \* the range built by the last iteration of the token loop
    j,                  \* position of the reconciliation loop in accumulatorWithDec
    pc,                 \* "decode", "reconcile", "done" or "error"
    returned,           \* the value handed to the caller, NoResult until the return
    thrown              \* the exception that left the function, NoError if none

inputs == <<data, tokenTypes, tokenModifiers, languageId, highlightGlobals, highlightClasses>>
locals == <<accumulatorParam, accumulatorVar, accumulatorWithDec, i, line, column, range, j>>
vars == <<data, tokenTypes, tokenModifiers, languageId, highlightGlobals, highlightClasses,
          accumulatorParam, accumulatorVar, accumulatorWithDec, i, line, column, range, j,
          pc, returned, thrown>>

-----------------------------------------------------------------------------
(* Program constants *)

recordSize == 5

ShortNameLength == 2

-----------------------------------------------------------------------------
(* Values that stand for JavaScript's undefined, the absent return value and
   the absent exception. *)

Undefined == "undefined"
NoResult == <<"no result">>
NoError == "none"
NoRange == <<>>
SourceUnavailable == "SourceUnavailable"

-----------------------------------------------------------------------------
(* The document of the editor: its lines of text. *)

DocumentLines == <<"aaaaaa", "bbbbbb", "aaaaaa">>

Min(a, b) == IF a < b THEN a ELSE b

\* vscode.Range(line, column, line, column + length)
Range(l, c, len) == <<l, c, l, c + len>>

\* editor.document.getText(range) for a single-line range: the document clamps
\* the range to its text, a range past the last line is the empty text.
GetText(r) ==
    IF r[1] >= Len(DocumentLines) THEN ""
    ELSE LET text == DocumentLines[r[1] + 1]
             from == Min(r[2], Len(text))
             to   == Min(r[4], Len(text))
         IN  SubSeq(text, from + 1, to)

-----------------------------------------------------------------------------
(* Map<K, V>: the entries in insertion order, each <<key, value>>. *)

EmptyMap == <<>>

MapHas(m, k) == \E e \in 1..Len(m) : m[e][1] = k

MapIndex(m, k) == CHOOSE e \in 1..Len(m) : m[e][1] = k

MapGet(m, k) == m[MapIndex(m, k)][2]

MapSet(m, k, v) ==
    IF MapHas(m, k)
    THEN LET e == MapIndex(m, k)
         IN  SubSeq(m, 1, e - 1) \o << <<k, v>> >> \o SubSeq(m, e + 1, Len(m))
    ELSE Append(m, <<k, v>>)

MapDelete(m, k) ==
    IF MapHas(m, k)
    THEN LET e == MapIndex(m, k)
         IN  SubSeq(m, 1, e - 1) \o SubSeq(m, e + 1, Len(m))
    ELSE m

MapKeys(m) == {m[e][1] : e \in 1..Len(m)}

-----------------------------------------------------------------------------
(* The body of the token loop, lines 73-116. *)

\* line 74: the k-th of the five integers of the record at offset i
Field(k) == data[i + k]

\* a decoder that never resets the column at a new line
ResetColumnNever(deltaLine, col) == col

\* line 75: column = deltaLine === 0 ? column : 0
ResetColumn(deltaLine, col) == IF deltaLine = 0 THEN col ELSE 0

\* line 80: legend.tokenTypes[kindIndex]
KindAt(kindIndex) ==
    IF kindIndex < Len(tokenTypes) THEN tokenTypes[kindIndex + 1] ELSE Undefined

\* (modifierIndex & (1 << index)) !== 0
BitSet(modifierIndex, index) == (modifierIndex \div (2 ^ index)) % 2 = 1

\* line 81: the names of the legend whose bit is set; the code only asks
\* the result whether it includes a name, so it is kept as a set
ModifiersOf(modifierIndex) ==
    {tokenModifiers[b + 1] : b \in {c \in 0..(Len(tokenModifiers) - 1) : BitSet(modifierIndex, c)}}

\* a predicate that suppresses only the names that are both global and short
IncludedUnlessShortGlobal(modifiers, name) ==
    highlightGlobals \/ ~("global" \in modifiers /\ Len(name) <= ShortNameLength)

\* line 82: highlightGlobals || !modifiers.includes('global') && name.length > 2
Included(modifiers, name) ==
    highlightGlobals \/ ("global" \notin modifiers /\ Len(name) > ShortNameLength)

\* a parameter test that forgets the label modifier
IsParameterAnyModifier(kind, modifiers) == kind = "parameter"

\* a parameter test that lets a declared label through
IsParameterUnlessBareLabel(kind, modifiers) ==
    kind = "parameter" /\ ("label" \notin modifiers \/ "declaration" \in modifiers)

\* line 90: kind === 'parameter' && !modifiers.includes('label')
IsParameter(kind, modifiers) == kind = "parameter" /\ "label" \notin modifiers

\* a class pass that stays under the inclusion predicate
FoldsClassIfIncluded(kind, modifiers, name) ==
    highlightClasses /\ kind = "class" /\ Included(modifiers, name)

\* line 109: highlightClasses && kind === 'class'
FoldsClass(kind, modifiers, name) == highlightClasses /\ kind = "class"

\* lines 84-88, 101-105, 110-114: push the range or create the entry
PushRange(m, name, r) ==
    IF MapHas(m, name)
    THEN MapSet(m, name, Append(MapGet(m, name), r))
    ELSE MapSet(m, name, <<r>>)

\* a flag that follows the last occurrence instead of any occurrence
MarkDeclaredByLast(m, name, modifiers) == MapSet(m, name, "declaration" \in modifiers)

\* lines 94-99: create the flag at first sight, raise it on a declaration
MarkDeclared(m, name, modifiers) ==
    LET seen == IF MapHas(m, name) THEN m ELSE MapSet(m, name, FALSE)
    IN  IF "declaration" \in modifiers THEN MapSet(seen, name, TRUE) ELSE seen

\* lines 83-89 and 109-115: what the token does to accumulatorVar
ClassifyVar(m, name, kind, modifiers, r) ==
    LET primary == IF Included(modifiers, name) /\ kind = "variable"
                   THEN PushRange(m, name, r) ELSE m
    IN  IF FoldsClass(kind, modifiers, name) THEN PushRange(primary, name, r) ELSE primary

\* the guard of lines 90-106
TakesParameter(name, kind, modifiers) ==
    Included(modifiers, name) /\ kind # "variable" /\ IsParameter(kind, modifiers)

\* lines 73-116, one iteration in which getText answers
DecodeToken ==
    /\ pc = "decode"
    /\ i < Len(data)
    /\ LET deltaLine     == Field(1)
           deltaColumn   == Field(2)
           length        == Field(3)
           kindIndex     == Field(4)
           modifierIndex == Field(5)
           newLine       == line + deltaLine
           newColumn     == ResetColumn(deltaLine, column) + deltaColumn
           r             == Range(newLine, newColumn, length)
           name          == GetText(r)
           kind          == KindAt(kindIndex)
           modifiers     == ModifiersOf(modifierIndex)
       IN  /\ line' = newLine
           /\ column' = newColumn
           /\ range' = r
           /\ accumulatorVar' = ClassifyVar(accumulatorVar, name, kind, modifiers, r)
           /\ accumulatorWithDec' =
                  IF TakesParameter(name, kind, modifiers)
                  THEN MarkDeclared(accumulatorWithDec, name, modifiers)
                  ELSE accumulatorWithDec
           /\ accumulatorParam' =
                  IF TakesParameter(name, kind, modifiers)
                  THEN PushRange(accumulatorParam, name, r)
                  ELSE accumulatorParam
    /\ i' = i + recordSize
    /\ UNCHANGED <<inputs, j, pc, returned, thrown>>

\* a loop that catches the exception and goes on with the next token
DecodeThrowSwallowed ==
    /\ pc = "decode"
    /\ i < Len(data)
    /\ thrown' = SourceUnavailable
    /\ i' = i + recordSize
    /\ UNCHANGED <<inputs, accumulatorParam, accumulatorVar, accumulatorWithDec,
                   line, column, range, j, pc, returned>>

\* lines 73-79, one iteration in which getText throws: nothing catches the
\* exception, it leaves rangesByName
DecodeThrow ==
    /\ pc = "decode"
    /\ i < Len(data)
    /\ LET deltaLine   == Field(1)
           newLine     == line + deltaLine
           newColumn   == ResetColumn(deltaLine, column) + Field(2)
       IN  /\ line' = newLine
           /\ column' = newColumn
           /\ range' = Range(newLine, newColumn, Field(3))
    /\ pc' = "error"
    /\ thrown' = SourceUnavailable
    /\ UNCHANGED <<inputs, accumulatorParam, accumulatorVar, accumulatorWithDec, i, j, returned>>

-----------------------------------------------------------------------------
(* After the loop, lines 118-138. *)

RECURSIVE SetAllTrue(_)
SetAllTrue(m) ==
    IF Len(m) = 0 THEN m ELSE << <<Head(m)[1], TRUE>> >> \o SetAllTrue(Tail(m))

\* no language exception
ForceDeclaredNever(m) == m

\* lines 120-124
ForceDeclared(m) == IF languageId = "cpp" THEN SetAllTrue(m) ELSE m

LanguageException ==
    /\ pc = "decode"
    /\ i >= Len(data)
    /\ accumulatorWithDec' = ForceDeclared(accumulatorWithDec)
    /\ j' = 0
    /\ pc' = "reconcile"
    /\ UNCHANGED <<inputs, accumulatorParam, accumulatorVar, i, line, column, range,
                   returned, thrown>>

\* Array.prototype.concat with the result of Map.get: an absent entry is the
\* value undefined, which concat appends as one element
ConcatGet(ranges, m, name) ==
    IF MapHas(m, name) THEN ranges \o MapGet(m, name) ELSE Append(ranges, Undefined)

\* a discard that empties the entry and keeps the key
DiscardByClearing(paramMap, name) == MapSet(paramMap, name, <<>>)

\* line 127
Discard(paramMap, name) == MapDelete(paramMap, name)

\* a merge that puts the parameter ranges first
MergeParametersFirst(varMap, paramMap, name) ==
    IF MapHas(varMap, name)
    THEN MapSet(varMap, name, MapGet(paramMap, name) \o MapGet(varMap, name))
    ELSE MapSet(varMap, name, MapGet(paramMap, name))

\* lines 130-135
Merge(varMap, paramMap, name) ==
    IF MapHas(varMap, name)
    THEN MapSet(varMap, name, ConcatGet(MapGet(varMap, name), paramMap, name))
    ELSE MapSet(varMap, name, IF MapHas(paramMap, name) THEN MapGet(paramMap, name) ELSE Undefined)

\* lines 125-137, one iteration
ReconcileEntry ==
    /\ pc = "reconcile"
    /\ j < Len(accumulatorWithDec)
    /\ LET name       == accumulatorWithDec[j + 1][1]
           isDeclared == accumulatorWithDec[j + 1][2]
       IN  IF ~isDeclared
           THEN /\ accumulatorParam' = Discard(accumulatorParam, name)
                /\ UNCHANGED accumulatorVar
           ELSE /\ accumulatorVar' = Merge(accumulatorVar, accumulatorParam, name)
                /\ UNCHANGED accumulatorParam
    /\ j' = j + 1
    /\ UNCHANGED <<inputs, accumulatorWithDec, i, line, column, range, pc, returned, thrown>>

\* line 138
Return ==
    /\ pc = "reconcile"
    /\ j >= Len(accumulatorWithDec)
    /\ returned' = accumulatorVar
    /\ pc' = "done"
    /\ UNCHANGED <<inputs, locals, thrown>>

Next ==
    \/ DecodeToken
    \/ DecodeThrow
    \/ LanguageException
    \/ ReconcileEntry
    \/ Return

-----------------------------------------------------------------------------
(* Inputs. *)

MaxTokens == 2
MaxLongTokens == 3
MaxDeltaLine == 1
MaxDeltaColumn == 1

\* the legend of a language server that reports the kinds and modifiers the
\* function looks at
StandardTypes == <<"function", "variable", "parameter", "class">>
StandardModifiers == <<"declaration", "global", "label">>

\* the legend and the stream of the example in the comment above the function
ExampleTypes == <<"property", "type", "class">>
ExampleModifiers == <<"private", "static">>
ExampleStream == <<2, 5, 3, 0, 3,  0, 5, 4, 1, 0,  3, 2, 7, 2, 0>>
ExampleRanges == << <<2, 5, 2, 8>>, <<2, 10, 2, 14>>, <<5, 2, 5, 9>> >>

\* every well-formed stream of at most n records over the alphabet
RECURSIVE Streams(_, _)
Streams(alphabet, n) ==
    IF n = 0 THEN {<<>>}
    ELSE LET shorter == Streams(alphabet, n - 1)
         IN  shorter \cup {s \o t : s \in {u \in shorter : Len(u) = recordSize * (n - 1)},
                                    t \in alphabet}

\* a token right after the previous one on its line, or at the start of the
\* next line
Positions == {<<0, 1>>, <<1, 0>>}

\* every kind and every set of modifiers of the standard legend, names of
\* ShortNameLength and ShortNameLength + 1 characters
TokenAlphabet ==
    {<<p[1], p[2], len, k, m>> :
        p \in Positions,
        len \in ShortNameLength..(ShortNameLength + 1),
        k \in 0..(Len(StandardTypes) - 1),
        m \in 0..(2 ^ Len(StandardModifiers) - 1)}

\* every pair of deltas, one kind: parameter declarations
DecodeAlphabet ==
    {<<dl, dc, 1, 2, 1>> : dl \in 0..MaxDeltaLine, dc \in 0..MaxDeltaColumn}

\* variables, parameters and classes, declarations or not, with long names
MergeAlphabet ==
    {<<p[1], p[2], ShortNameLength + 1, k, m>> : p \in Positions, k \in 1..3, m \in 0..1}

\* variables, parameters and classes, global or not, with short and long names
InclusionAlphabet ==
    {<<p[1], p[2], len, k, m>> :
        p \in Positions,
        len \in ShortNameLength..(ShortNameLength + 1),
        k \in 1..3,
        m \in {0, 2}}

\* parameters that follow each other on a line, with every set of modifiers,
\* with short and long names
ParameterAlphabet ==
    {<<0, 1, len, 2, m>> :
        len \in ShortNameLength..(ShortNameLength + 1),
        m \in 0..(2 ^ Len(StandardModifiers) - 1)}

\* the state at line 72, before the first iteration
Start ==
    /\ accumulatorParam = EmptyMap
    /\ accumulatorVar = EmptyMap
    /\ accumulatorWithDec = EmptyMap
    /\ i = 0
    /\ line = 0
    /\ column = 0
    /\ range = NoRange
    /\ j = 0
    /\ pc = "decode"
    /\ returned = NoResult
    /\ thrown = NoError

Settings ==
    /\ languageId \in {"cpp", "python"}
    /\ highlightGlobals \in BOOLEAN
    /\ highlightClasses \in BOOLEAN

Init ==
    /\ data \in Streams(TokenAlphabet, MaxTokens)
    /\ tokenTypes = StandardTypes
    /\ tokenModifiers = StandardModifiers
    /\ Settings
    /\ Start

InitDecode ==
    /\ \/ /\ data \in Streams(DecodeAlphabet, MaxLongTokens)
          /\ tokenTypes = StandardTypes
          /\ tokenModifiers = StandardModifiers
       \/ /\ data = ExampleStream
          /\ tokenTypes = ExampleTypes
          /\ tokenModifiers = ExampleModifiers
    /\ Settings
    /\ Start

InitMerge ==
    /\ data \in Streams(MergeAlphabet, MaxLongTokens)
    /\ tokenTypes = StandardTypes
    /\ tokenModifiers = StandardModifiers
    /\ Settings
    /\ Start

InitInclusion ==
    /\ data \in Streams(InclusionAlphabet, MaxTokens)
    /\ tokenTypes = StandardTypes
    /\ tokenModifiers = StandardModifiers
    /\ Settings
    /\ Start

InitParameter ==
    /\ data \in Streams(ParameterAlphabet, MaxTokens)
    /\ tokenTypes = StandardTypes
    /\ tokenModifiers = StandardModifiers
    /\ Settings
    /\ Start

Spec == Init /\ [][Next]_vars

SpecDecode == InitDecode /\ [][Next]_vars

SpecMerge == InitMerge /\ [][Next]_vars

SpecInclusion == InitInclusion /\ [][Next]_vars

SpecParameter == InitParameter /\ [][Next]_vars

-----------------------------------------------------------------------------
(* The stream read as the specification reads it: token t (1-based) with its
   absolute position, its name, its kind and its modifiers. *)

NumTokens == Len(data) \div recordSize

TokField(t, k) == data[recordSize * (t - 1) + k]

RECURSIVE AbsLine(_)
AbsLine(t) == IF t = 0 THEN 0 ELSE AbsLine(t - 1) + TokField(t, 1)

RECURSIVE AbsColumn(_)
AbsColumn(t) ==
    IF t = 0 THEN 0
    ELSE IF TokField(t, 1) = 0 THEN AbsColumn(t - 1) + TokField(t, 2)
    ELSE TokField(t, 2)

TokRange(t) == <<AbsLine(t), AbsColumn(t), AbsLine(t), AbsColumn(t) + TokField(t, 3)>>

TokName(t) == GetText(TokRange(t))

TokKind(t) == tokenTypes[TokField(t, 4) + 1]

TokHas(t, modifier) ==
    \E b \in 1..Len(tokenModifiers) :
        /\ tokenModifiers[b] = modifier
        /\ TokField(t, 5) % (2 ^ b) >= 2 ^ (b - 1)

TokShort(t) == Len(TokName(t)) <= 2

\* the inclusion predicate
TokPasses(t) == highlightGlobals \/ (~TokHas(t, "global") /\ ~TokShort(t))

AllNames == {TokName(t) : t \in 1..NumTokens}

\* the ranges, in stream order, of the tokens of the set ts
RECURSIVE RangesFrom(_, _)
RangesFrom(ts, t) ==
    IF t > NumTokens THEN <<>>
    ELSE (IF t \in ts THEN <<TokRange(t)>> ELSE <<>>) \o RangesFrom(ts, t + 1)

RangesOf(ts) == RangesFrom(ts, 1)

\* the tokens of name n that go to variableRanges
VariableTokens(n) ==
    {t \in 1..NumTokens : TokName(t) = n /\ TokKind(t) = "variable" /\ TokPasses(t)}

ClassTokens(n) ==
    {t \in 1..NumTokens : TokName(t) = n /\ TokKind(t) = "class" /\ highlightClasses}

\* the tokens of name n that go to parameterRanges
ParameterTokens(n) ==
    {t \in 1..NumTokens :
        TokName(t) = n /\ TokKind(t) = "parameter" /\ ~TokHas(t, "label") /\ TokPasses(t)}

IsCpp == languageId = "cpp"

ResultHas(n) == MapHas(returned, n)

ResultOf(n) == MapGet(returned, n)

\* the result holds exactly the sequence s under n, no entry if s is empty
ResultIs(n, s) == IF s = <<>> THEN ~ResultHas(n) ELSE ResultHas(n) /\ ResultOf(n) = s

Elements(s) == {s[k] : k \in 1..Len(s)}

-----------------------------------------------------------------------------
(* Properties. *)

EveryParameter(n) == {t \in 1..NumTokens : TokName(t) = n /\ TokKind(t) = "parameter"}

EveryVariable(n) == {t \in 1..NumTokens : TokName(t) = n /\ TokKind(t) = "variable"}

EveryClass(n) == {t \in 1..NumTokens : TokName(t) = n /\ TokKind(t) = "class"}

NamedTokens(n) == {t \in 1..NumTokens : TokName(t) = n}

SomeDeclaration(ts) == \E t \in ts : TokHas(t, "declaration")

\* the name keeps its parameter ranges
Promoted(n) == ParameterTokens(n) # {} /\ (IsCpp \/ SomeDeclaration(ParameterTokens(n)))

\* the ranges that are in variableRanges under n when the stream is consumed
VariablePart(n) == RangesOf(VariableTokens(n) \cup ClassTokens(n))

\* the number of ranges built so far
Decoded == IF pc = "error" THEN i \div recordSize + 1 ELSE i \div recordSize

\* C1: token t is decoded to the single-line range (line_t, col_t)-(line_t,
\* col_t + length_t), line_t the sum of the line deltas up to t, col_t the
\* column delta of t added to col_(t-1) on the same line and alone on a new
\* line; the stream of the example decodes to (2,5)-(2,8), (2,10)-(2,14),
\* (5,2)-(5,9).
C1_DeltaDecode ==
    Decoded > 0 =>
        /\ line = AbsLine(Decoded)
        /\ column = AbsColumn(Decoded)
        /\ range = TokRange(Decoded)
        /\ data = ExampleStream => range = ExampleRanges[Decoded]

C1_Witness ==
    /\ data = ExampleStream
    /\ pc = "decode"
    /\ i = Len(ExampleStream)
    /\ range = <<5, 2, 5, 9>>

\* C2 as stated: with highlightGlobals false a variable-kind token is
\* suppressed only when it is both global and of a name of at most 2
\* characters, so that a global variable of 3 characters is in the result.
C2_SuppressedOnlyIfShortAndGlobal ==
    (pc = "done" /\ ~highlightGlobals) =>
        \A n \in AllNames :
            NamedTokens(n) = EveryVariable(n) =>
                ResultIs(n, RangesOf({t \in EveryVariable(n) :
                                        ~(TokHas(t, "global") /\ TokShort(t))}))

\* C2 amended: with highlightGlobals false a variable-kind token is
\* suppressed when it is global or its name has at most 2 characters: the
\* global variable of 2 characters is absent, the global variable of 3
\* characters is absent too, the variable of 3 characters that is not global
\* is in the result.
C2_SuppressedIfShortOrGlobal ==
    (pc = "done" /\ ~highlightGlobals) =>
        \A n \in AllNames :
            NamedTokens(n) = EveryVariable(n) =>
                ResultIs(n, RangesOf({t \in EveryVariable(n) :
                                        ~TokHas(t, "global") /\ ~TokShort(t)}))

C2_Witness ==
    /\ pc = "done"
    /\ ~highlightGlobals
    /\ NumTokens = 2
    /\ TokKind(1) = "variable" /\ TokHas(1, "global") /\ Len(TokName(1)) = 3
    /\ TokKind(2) = "variable" /\ ~TokHas(2, "global") /\ Len(TokName(2)) = 3
    /\ TokName(1) # TokName(2)
    /\ ~ResultHas(TokName(1))
    /\ ResultHas(TokName(2))

\* C3 as stated: the names returned are those of the variable-kind tokens
\* that pass the inclusion predicate, of the class-kind tokens when
\* highlightClasses, and of the parameter-kind tokens that pass the predicate
\* and are declared (or any, for cpp).
C3_KeysAreUnion ==
    pc = "done" =>
        MapKeys(returned) =
            {n \in AllNames :
                \/ VariableTokens(n) # {}
                \/ ClassTokens(n) # {}
                \/ \E t \in EveryParameter(n) :
                       TokPasses(t) /\ (TokHas(t, "declaration") \/ IsCpp)}

\* C3 amended: as C3, the parameter-kind tokens being those that pass the
\* predicate and carry no "label" modifier: a name is returned for them when
\* one of these carries "declaration", or when there is one at all for cpp.
C3_KeysAreUnionWithoutLabels ==
    pc = "done" =>
        MapKeys(returned) =
            {n \in AllNames :
                \/ VariableTokens(n) # {}
                \/ ClassTokens(n) # {}
                \/ \E t \in EveryParameter(n) :
                       /\ TokPasses(t)
                       /\ ~TokHas(t, "label")
                       /\ (TokHas(t, "declaration") \/ IsCpp)}

C3_Witness ==
    /\ pc = "done"
    /\ NumTokens = 2
    /\ TokKind(1) = "parameter" /\ TokHas(1, "label") /\ TokHas(1, "declaration")
    /\ TokPasses(1)
    /\ TokKind(2) = "parameter" /\ ~TokHas(2, "label") /\ TokHas(2, "declaration")
    /\ TokPasses(2)
    /\ TokName(1) # TokName(2)
    /\ MapKeys(returned) = {TokName(2)}

\* C4: languageId not cpp, n a name whose parameter-kind tokens carry no
\* label and pass the inclusion predicate.  If one of them is a declaration,
\* each of them has its range in the result under n, the ones before the
\* declaration too; if none is, the result holds under n only what the
\* variable-kind and folded class-kind tokens put there, and no entry if they
\* put nothing.
C4_ParameterPromotion ==
    (pc = "done" /\ ~IsCpp) =>
        \A n \in AllNames :
            (/\ EveryParameter(n) # {}
             /\ \A t \in EveryParameter(n) : ~TokHas(t, "label") /\ TokPasses(t)) =>
                IF SomeDeclaration(EveryParameter(n))
                THEN /\ ResultHas(n)
                     /\ \A t \in EveryParameter(n) : TokRange(t) \in Elements(ResultOf(n))
                     /\ Len(ResultOf(n)) =
                            Len(VariablePart(n)) + Cardinality(EveryParameter(n))
                ELSE ResultIs(n, VariablePart(n))

C4_Witness ==
    /\ pc = "done"
    /\ ~IsCpp
    /\ NumTokens = 3
    /\ \A t \in 1..3 : TokKind(t) = "parameter" /\ TokName(t) = TokName(1) /\ TokPasses(t)
    /\ \A t \in 1..3 : TokHas(t, "declaration") <=> t = 2
    /\ ResultHas(TokName(1))
    /\ ResultOf(TokName(1)) = <<TokRange(1), TokRange(2), TokRange(3)>>

\* C5: for cpp every flag of declaredFlag is true once the stream is
\* consumed, and a name whose parameter-kind tokens without label that pass
\* the predicate are never declarations keeps all their ranges, after those
\* of variableRanges; for another language the same stream leaves them out.
C5_CppOverride ==
    /\ (pc \in {"reconcile", "done"} /\ IsCpp) =>
           \A e \in 1..Len(accumulatorWithDec) : accumulatorWithDec[e][2] = TRUE
    /\ pc = "done" =>
           \A n \in AllNames :
               (ParameterTokens(n) # {} /\ ~SomeDeclaration(ParameterTokens(n))) =>
                   IF IsCpp
                   THEN ResultIs(n, VariablePart(n) \o RangesOf(ParameterTokens(n)))
                   ELSE ResultIs(n, VariablePart(n))

C5_Witness ==
    /\ pc = "done"
    /\ IsCpp
    /\ NumTokens = 2
    /\ \A t \in 1..2 : TokKind(t) = "parameter" /\ ~TokHas(t, "declaration")
    /\ ParameterTokens(TokName(1)) = {1, 2}
    /\ ResultOf(TokName(1)) = <<TokRange(1), TokRange(2)>>

\* C6: with highlightClasses every class-kind token has its range in the
\* result under its name, also when highlightGlobals is false, the name is
\* short and the token is global; without highlightClasses the result holds
\* under each name the ranges of its variable-kind and promoted parameter-kind
\* tokens and nothing of a class-kind token.
C6_ClassFolding ==
    pc = "done" =>
        \A n \in AllNames :
            IF highlightClasses
            THEN EveryClass(n) # {} =>
                     /\ ResultHas(n)
                     /\ \A t \in EveryClass(n) : TokRange(t) \in Elements(ResultOf(n))
                     /\ Len(ResultOf(n)) >= Cardinality(EveryClass(n))
            ELSE ResultIs(n, RangesOf(VariableTokens(n))
                             \o (IF Promoted(n) THEN RangesOf(ParameterTokens(n)) ELSE <<>>))

C6_Witness ==
    /\ pc = "done"
    /\ highlightClasses
    /\ ~highlightGlobals
    /\ NumTokens = 1
    /\ TokKind(1) = "class" /\ TokHas(1, "global") /\ TokShort(1)
    /\ returned = << <<TokName(1), <<TokRange(1)>> >> >>

\* C7: a name with variable-kind occurrences and promoted parameter-kind
\* occurrences is returned with the ranges of variableRanges in stream order
\* followed by its parameter ranges in stream order, also when a parameter
\* occurrence comes first in the stream.
C7_MergeOrdering ==
    pc = "done" =>
        \A n \in AllNames :
            (VariableTokens(n) # {} /\ Promoted(n)) =>
                /\ ResultHas(n)
                /\ ResultOf(n) = VariablePart(n) \o RangesOf(ParameterTokens(n))

C7_Witness ==
    /\ pc = "done"
    /\ NumTokens = 3
    /\ TokName(1) = TokName(2) /\ TokName(2) = TokName(3)
    /\ VariableTokens(TokName(1)) = {2}
    /\ ParameterTokens(TokName(1)) = {1, 3}
    /\ ResultOf(TokName(1)) = <<TokRange(2), TokRange(1), TokRange(3)>>

\* the parameter-kind token with the "label" modifier is the one the loop is at
AtLabel ==
    /\ pc = "decode"
    /\ i < Len(data)
    /\ TokKind(Decoded + 1) = "parameter"
    /\ TokHas(Decoded + 1, "label")

\* parameterRanges and declaredFlag are what the parameter-kind tokens
\* without label, read so far, make them
ParametersWithoutLabels ==
    \A n \in AllNames :
        LET ts == {t \in ParameterTokens(n) : t <= Decoded}
        IN  IF ts = {}
            THEN ~MapHas(accumulatorParam, n) /\ ~MapHas(accumulatorWithDec, n)
            ELSE /\ MapHas(accumulatorParam, n)
                 /\ MapGet(accumulatorParam, n) = RangesOf(ts)
                 /\ MapHas(accumulatorWithDec, n)
                 /\ MapGet(accumulatorWithDec, n) = SomeDeclaration(ts)

\* C8: a parameter-kind token with the "label" modifier changes neither
\* parameterRanges nor declaredFlag, declaration or not, whatever
\* highlightGlobals and languageId are; in every state of the decode both are
\* what the other tokens alone make them.
C8_LabelExclusion ==
    /\ [](pc = "decode" => ParametersWithoutLabels)
    /\ [][AtLabel => UNCHANGED <<accumulatorParam, accumulatorWithDec>>]_vars

C8_Witness ==
    /\ pc = "decode"
    /\ i = 2 * recordSize
    /\ TokKind(1) = "parameter" /\ ~TokHas(1, "label") /\ ~TokHas(1, "declaration")
    /\ TokPasses(1)
    /\ TokKind(2) = "parameter" /\ TokHas(2, "label") /\ TokHas(2, "declaration")
    /\ TokPasses(2)
    /\ TokName(1) = TokName(2)
    /\ accumulatorWithDec = << <<TokName(1), FALSE>> >>
    /\ accumulatorParam = << <<TokName(1), <<TokRange(1)>> >> >>

NoEmptyEntry(m) == \A e \in 1..Len(m) : Len(m[e][2]) > 0

\* C9: no entry of variableRanges, of parameterRanges or of the mapping
\* returned has an empty sequence of ranges, in any state of the decode and of
\* the reconciliation.
C9_NoEmptyEntry ==
    /\ NoEmptyEntry(accumulatorVar)
    /\ NoEmptyEntry(accumulatorParam)
    /\ pc = "done" => NoEmptyEntry(returned)

C9_Witness ==
    /\ pc = "done"
    /\ Len(accumulatorWithDec) = 2
    /\ accumulatorWithDec[1][2] = FALSE
    /\ accumulatorWithDec[2][2] = TRUE
    /\ Len(accumulatorParam) = 1
    /\ Len(returned) = 1

\* C10: when the source-text accessor fails at a token, rangesByName ends
\* there with the failure: the accumulators are left as they were, no token
\* after it is read, the reconciliation does not run and no mapping is
\* returned.
C10_FailureAborts ==
    [][/\ thrown = NoError
       /\ thrown' # NoError =>
              /\ pc' = "error"
              /\ returned' = NoResult
              /\ UNCHANGED <<accumulatorParam, accumulatorVar, accumulatorWithDec, i, j>>]_vars

C10_Witness ==
    /\ pc = "error"
    /\ thrown = SourceUnavailable
    /\ NumTokens = 2
    /\ i = recordSize
    /\ accumulatorVar # EmptyMap
    /\ returned = NoResult

====
